---------------------------- MODULE Spec2Model ----------------------------
(***************************************************************************)
(* Model of the client-side documentation search of the Nyte.js site:      *)
(* searchDocs / makeSnippet / normalize (lib/searchIndex) and the          *)
(* SearchModal component that calls it; and of the useScrollReveal hook    *)
(* (hooks/useScrollReveal), which has a specification of its own, as have  *)
(* the hooks usePrefersReducedMotion and useParallax (SpecMotion).         *)
(*                                                                         *)
(* A JavaScript string is a sequence of characters.  An ASCII character    *)
(* is the one-character TLA+ string; any other character is named by its   *)
(* code point ("U+00E9").  An optional field (category?, content?,         *)
(* snippet?, limit) is a sequence of length at most one: None when the     *)
(* field is undefined, Some(v) when it holds v.                            *)
(***************************************************************************)
EXTENDS Integers, Sequences, FiniteSets, TLC

VARIABLES
    docs,           \* the SearchDoc[] collection handed to searchDocs / the modal
    query,          \* argument `query` of the direct call of searchDocs
    limit,          \* argument `limit` of that call (None: omitted)
    hits,           \* the SearchHit[] that call returned
    called,         \* that call has returned
    calls,          \* how many times that call has been made
    between,        \* the modal ran a search of its own after one of them and
                    \* before the last
    scenario,       \* what the behaviour exercises: the "call" or the "modal"
    open,           \* SearchModal prop `open`
    mquery,         \* SearchModal state `query`
    results,        \* SearchModal memo `results`
    effectPending,  \* the [open, initialQuery] effect is scheduled, not yet run
    once,           \* useScrollReveal: option `once` after defaulting
    node,           \* ref.current holds an element when the effect runs
    hasObserver,    \* 'IntersectionObserver' in window
    isVisible,      \* state `isVisible`
    io,             \* the observer: "none", "observing" or "disconnected"
    revealPhase,    \* "rendered" (effect not yet run), "mounted", "unmounted"
    observations,   \* isIntersecting of every entry delivered so far, oldest first
    reduced,        \* usePrefersReducedMotion: state `reduced`
    mediaMatches,   \* media.matches of (prefers-reduced-motion: reduce) right now
    hasMatchMedia,  \* window and window.matchMedia exist
    modernMedia,    \* media.addEventListener is a function
    mediaListener,  \* how `update` is registered: "none", "event" or "legacy"
    motionPhase,    \* "rendered" (effect not yet run), "mounted", "unmounted"
    changePending,  \* the media query changed, its change event is not yet dispatched
    changes,        \* how many change events have been dispatched
    page,           \* the page that is mounted: "docs" (NyteDocs) or "landing" (NyteLanding)
    activeSection,  \* NyteDocs state `activeSection`: the id of the page shown
    lastKey,        \* the keydown event handled last (NoKey: none yet)
    pxPhase,        \* useParallax: "rendered" (effect not yet run), "active" (the
                    \* effect registered its listeners), "idle" (the effect
                    \* returned early), "unmounted"
    pxEnabled,      \* argument `enabled` of the render whose effect ran last
    pxEl,           \* ref.current holds an element
    pxOptions,      \* the options argument after defaulting
    raf,            \* the effect's variable `raf`: 0 or the handle of a request
    frames,         \* handles of the animation-frame requests the browser holds
    scrollListener, \* onScroll is registered for 'scroll'
    resizeListener, \* onScroll is registered for 'resize'
    scrollY,        \* window.scrollY
    innerHeight,    \* window.innerHeight
    transform,      \* el.style.transform (None: never written)
    writes,         \* how many times el.style.transform has been assigned
    uiEvents        \* how many scroll and resize events have been dispatched

searchVars == <<docs, query, limit, hits, called, calls, between, scenario, open, mquery,
                results, effectPending>>

revealVars == <<once, node, hasObserver, isVisible, io, revealPhase, observations>>

motionVars == <<reduced, mediaMatches, hasMatchMedia, modernMedia, mediaListener, motionPhase,
                changePending, changes>>

pageVars == <<page, activeSection, lastKey>>

parallaxVars == <<pxPhase, pxEnabled, pxEl, pxOptions, raf, frames, scrollListener,
                  resizeListener, scrollY, innerHeight, transform, writes, uiEvents>>

vars == <<searchVars, revealVars, motionVars, pageVars, parallaxVars>>

None == <<>>
Some(v) == <<v>>

Max(a, b) == IF a > b THEN a ELSE b
Min(a, b) == IF a < b THEN a ELSE b

(***************************************************************************)
(* Characters.                                                             *)
(***************************************************************************)
TAB == "U+0009"
EAcuteUpper == "U+00C9"     \* LATIN CAPITAL LETTER E WITH ACUTE
EAcute == "U+00E9"          \* LATIN SMALL LETTER E WITH ACUTE
IDotUpper == "U+0130"       \* LATIN CAPITAL LETTER I WITH DOT ABOVE
CombAcute == "U+0301"       \* COMBINING ACUTE ACCENT
CombDot == "U+0307"         \* COMBINING DOT ABOVE
Ellipsis == "U+2026"        \* HORIZONTAL ELLIPSIS

\* /\s/ and String.prototype.trim: white space
WhiteSpace == {" ", TAB}
IsSpace(c) == c \in WhiteSpace

\* /\p{Diacritic}/u
Diacritic == {CombAcute, CombDot, "U+005E", "U+0060"}

UpperAscii == <<"A", "B", "C", "D", "E", "F", "G", "H", "I", "J", "K", "L", "M",
                "N", "O", "P", "Q", "R", "S", "T", "U", "V", "W", "X", "Y", "Z">>
LowerAscii == <<"a", "b", "c", "d", "e", "f", "g", "h", "i", "j", "k", "l", "m",
                "n", "o", "p", "q", "r", "s", "t", "u", "v", "w", "x", "y", "z">>

AsciiLower ==
    [c \in {UpperAscii[k] : k \in 1..26} |->
        LowerAscii[CHOOSE k \in 1..26 : UpperAscii[k] = c]]

\* String.prototype.toLowerCase on one character (U+0130 lower-cases to two)
ToLowerChar(c) ==
    IF c = EAcuteUpper THEN <<EAcute>>
    ELSE IF c = IDotUpper THEN <<"i", CombDot>>
    ELSE IF c \in DOMAIN AsciiLower THEN <<AsciiLower[c]>>
    ELSE <<c>>

\* canonical decomposition of one character
NFDChar(c) ==
    IF c = EAcute THEN <<"e", CombAcute>>
    ELSE IF c = EAcuteUpper THEN <<"E", CombAcute>>
    ELSE IF c = IDotUpper THEN <<"I", CombDot>>
    ELSE <<c>>

(***************************************************************************)
(* String primitives.                                                      *)
(***************************************************************************)
RECURSIVE ToLowerRange(_, _, _)
\* the lower-cased characters lo..hi of s, by halves
ToLowerRange(s, lo, hi) ==
    IF lo > hi THEN <<>>
    ELSE IF lo = hi THEN ToLowerChar(s[lo])
    ELSE LET mid == (lo + hi) \div 2
         IN  ToLowerRange(s, lo, mid) \o ToLowerRange(s, mid + 1, hi)

\* text.toLowerCase()
ToLowerCase(s) == ToLowerRange(s, 1, Len(s))

RECURSIVE NFDRange(_, _, _)
\* the decomposed characters lo..hi of s, by halves
NFDRange(s, lo, hi) ==
    IF lo > hi THEN <<>>
    ELSE IF lo = hi THEN NFDChar(s[lo])
    ELSE LET mid == (lo + hi) \div 2
         IN  NFDRange(s, lo, mid) \o NFDRange(s, mid + 1, hi)

\* text.normalize(NFD)
NFD(s) == NFDRange(s, 1, Len(s))

\* text.replace(/\p{Diacritic}/gu, empty)
StripDiacritics(s) == SelectSeq(s, LAMBDA c : c \notin Diacritic)

\* what character i of s leaves behind: a run of white space leaves one space
CollapseChar(s, i) ==
    IF ~IsSpace(s[i]) THEN <<s[i]>>
    ELSE IF i > 1 /\ IsSpace(s[i - 1]) THEN <<>>
    ELSE <<" ">>

RECURSIVE CollapseRange(_, _, _)
CollapseRange(s, lo, hi) ==
    IF lo > hi THEN <<>>
    ELSE IF lo = hi THEN CollapseChar(s, lo)
    ELSE LET mid == (lo + hi) \div 2
         IN  CollapseRange(s, lo, mid) \o CollapseRange(s, mid + 1, hi)

\* text.replace(/\s+/g, one space)
CollapseSpaces(s) == CollapseRange(s, 1, Len(s))

\* text.trim()
Trim(s) ==
    LET solid == {i \in 1..Len(s) : ~IsSpace(s[i])}
    IN  IF solid = {} THEN <<>>
        ELSE SubSeq(s, CHOOSE i \in solid : \A j \in solid : i <= j,
                       CHOOSE i \in solid : \A j \in solid : i >= j)

\* s.indexOf(t): 0-based index of the first occurrence, -1 when there is none
IndexOf(s, t) ==
    LET at == {i \in 0..(Len(s) - Len(t)) : SubSeq(s, i + 1, i + Len(t)) = t}
    IN  IF at = {} THEN -1 ELSE CHOOSE i \in at : \A j \in at : i <= j

\* s.includes(t)
Includes(s, t) == \E i \in 0..(Len(s) - Len(t)) : SubSeq(s, i + 1, i + Len(t)) = t

\* relative index of Array/String.prototype.slice
SliceIndex(k, n) == IF k < 0 THEN Max(n + k, 0) ELSE Min(k, n)

\* s.slice(start, end)
Slice(s, start, end) == SubSeq(s, SliceIndex(start, Len(s)) + 1, SliceIndex(end, Len(s)))

RECURSIVE Split(_, _)
\* s.split(sep) for a one-character separator
Split(s, sep) ==
    LET at == {i \in 1..Len(s) : s[i] = sep}
    IN  IF at = {} THEN <<s>>
        ELSE LET k == CHOOSE i \in at : \A j \in at : i <= j
             IN  <<SubSeq(s, 1, k - 1)>> \o Split(SubSeq(s, k + 1, Len(s)), sep)

\* normalize without the accent stripping
normalizeKeepAccents(text) ==
    Trim(CollapseSpaces(ToLowerCase(text)))

\* normalize without the collapse of white space
normalizeNoCollapse(text) ==
    Trim(StripDiacritics(NFD(ToLowerCase(text))))

\* function normalize(text)
normalize(text) ==
    Trim(CollapseSpaces(StripDiacritics(NFD(ToLowerCase(text)))))

(***************************************************************************)
(* lib/searchIndex                                                         *)
(***************************************************************************)
LabelWeight == 40
CategoryWeight == 10
ContentWeight == 15
WordLabelWeight == 8
WordContentWeight == 2
DefaultLimit == 12
SnippetBefore == 70
SnippetAfter == 90

\* makeSnippet cutting the window out of the lower-cased text
makeSnippetLowered(content, queryNorm) ==
    LET normalized == CollapseSpaces(content)
        rawLower == ToLowerCase(normalized)
        rawIdx == IndexOf(rawLower, queryNorm)
        start == Max(0, rawIdx - SnippetBefore)
        end == Min(Len(normalized), rawIdx + Len(queryNorm) + SnippetAfter)
        prefix == IF start > 0 THEN <<Ellipsis>> ELSE <<>>
        suffix == IF end < Len(normalized) THEN <<Ellipsis>> ELSE <<>>
    IN  IF IndexOf(normalize(normalized), queryNorm) = -1 THEN None
        ELSE IF rawIdx = -1 THEN None
        ELSE Some(prefix \o Slice(rawLower, start, end) \o suffix)

\* makeSnippet without the return on rawIdx = -1
makeSnippetNoRawCheck(content, queryNorm) ==
    LET normalized == CollapseSpaces(content)
        lower == normalize(normalized)
        idx == IndexOf(lower, queryNorm)
        rawLower == ToLowerCase(normalized)
        rawIdx == IndexOf(rawLower, queryNorm)
        start == Max(0, rawIdx - SnippetBefore)
        end == Min(Len(normalized), rawIdx + Len(queryNorm) + SnippetAfter)
        prefix == IF start > 0 THEN <<Ellipsis>> ELSE <<>>
        suffix == IF end < Len(normalized) THEN <<Ellipsis>> ELSE <<>>
    IN  IF idx = -1 THEN None
        ELSE Some(prefix \o Slice(normalized, start, end) \o suffix)

\* function makeSnippet(content, queryNorm)
makeSnippet(content, queryNorm) ==
    LET normalized == CollapseSpaces(content)
        lower == normalize(normalized)
        idx == IndexOf(lower, queryNorm)
        rawLower == ToLowerCase(normalized)
        rawIdx == IndexOf(rawLower, queryNorm)
        start == Max(0, rawIdx - SnippetBefore)
        end == Min(Len(normalized), rawIdx + Len(queryNorm) + SnippetAfter)
        prefix == IF start > 0 THEN <<Ellipsis>> ELSE <<>>
        suffix == IF end < Len(normalized) THEN <<Ellipsis>> ELSE <<>>
    IN  IF idx = -1 THEN None
        ELSE IF rawIdx = -1 THEN None
        ELSE Some(prefix \o Slice(normalized, start, end) \o suffix)

\* doc.content ?? empty string, doc.category ?? empty string
OrEmpty(field) == IF field = None THEN <<>> ELSE field[1]

\* const words = q.split(space).filter(Boolean)
Words(q) == SelectSeq(Split(q, " "), LAMBDA w : w # <<>>)

RECURSIVE WordScoreDistinct(_, _, _, _)
\* the word loop over the distinct words only
WordScoreDistinct(labelNorm, contentNorm, words, i) ==
    IF i > Len(words) THEN 0
    ELSE (IF \E j \in 1..(i - 1) : words[j] = words[i] THEN 0
          ELSE (IF Includes(labelNorm, words[i]) THEN WordLabelWeight ELSE 0)
               + (IF Includes(contentNorm, words[i]) THEN WordContentWeight ELSE 0))
         + WordScoreDistinct(labelNorm, contentNorm, words, i + 1)

RECURSIVE WordScore(_, _, _, _)
\* for (const w of words) { ... }: what the loop adds to score from word i on
WordScore(labelNorm, contentNorm, words, i) ==
    IF i > Len(words) THEN 0
    ELSE (IF Includes(labelNorm, words[i]) THEN WordLabelWeight ELSE 0)
         + (IF Includes(contentNorm, words[i]) THEN WordContentWeight ELSE 0)
         + WordScore(labelNorm, contentNorm, words, i + 1)

\* the scoring without the loop over the words
DocScoreFullQueryOnly(doc, q, words) ==
    LET labelNorm == normalize(doc.label)
        contentNorm == normalize(OrEmpty(doc.content))
        categoryNorm == normalize(OrEmpty(doc.category))
    IN  (IF Includes(labelNorm, q) THEN LabelWeight ELSE 0)
        + (IF Includes(categoryNorm, q) THEN CategoryWeight ELSE 0)
        + (IF Includes(contentNorm, q) THEN ContentWeight ELSE 0)

\* the scoring with an absent content replaced by the label
DocScoreContentOrLabel(doc, q, words) ==
    LET labelNorm == normalize(doc.label)
        contentNorm == normalize(IF doc.content = None THEN doc.label ELSE doc.content[1])
        categoryNorm == normalize(OrEmpty(doc.category))
    IN  (IF Includes(labelNorm, q) THEN LabelWeight ELSE 0)
        + (IF Includes(categoryNorm, q) THEN CategoryWeight ELSE 0)
        + (IF Includes(contentNorm, q) THEN ContentWeight ELSE 0)
        + WordScore(labelNorm, contentNorm, words, 1)

\* the scoring with the label and the content weights exchanged
DocScoreSwapped(doc, q, words) ==
    LET labelNorm == normalize(doc.label)
        contentNorm == normalize(OrEmpty(doc.content))
        categoryNorm == normalize(OrEmpty(doc.category))
    IN  (IF Includes(labelNorm, q) THEN ContentWeight ELSE 0)
        + (IF Includes(categoryNorm, q) THEN CategoryWeight ELSE 0)
        + (IF Includes(contentNorm, q) THEN LabelWeight ELSE 0)
        + WordScore(labelNorm, contentNorm, words, 1)

\* the value of `score` for one doc when the loop body reaches `if (score <= 0)`
DocScore(doc, q, words) ==
    LET labelNorm == normalize(doc.label)
        contentNorm == normalize(OrEmpty(doc.content))
        categoryNorm == normalize(OrEmpty(doc.category))
    IN  (IF Includes(labelNorm, q) THEN LabelWeight ELSE 0)
        + (IF Includes(categoryNorm, q) THEN CategoryWeight ELSE 0)
        + (IF Includes(contentNorm, q) THEN ContentWeight ELSE 0)
        + WordScore(labelNorm, contentNorm, words, 1)

\* the snippet taken from the label when there is no content
DocSnippetFromLabel(doc, q) ==
    IF doc.content # None /\ doc.content[1] # <<>>
    THEN makeSnippet(doc.content[1], q) ELSE makeSnippet(doc.label, q)

\* snippet: doc.content ? makeSnippet(doc.content, q) : undefined
DocSnippet(doc, q) ==
    IF doc.content # None /\ doc.content[1] # <<>>
    THEN makeSnippet(doc.content[1], q) ELSE None

\* the object pushed on hits, with the category defaulted like the one scored
MakeHitCategoryOrEmpty(doc, q, score) ==
    [id |-> doc.id, label |-> doc.label, category |-> Some(OrEmpty(doc.category)),
     href |-> doc.href, score |-> score, snippet |-> DocSnippet(doc, q)]

\* the object pushed on hits
MakeHit(doc, q, score) ==
    [id |-> doc.id, label |-> doc.label, category |-> doc.category,
     href |-> doc.href, score |-> score, snippet |-> DocSnippet(doc, q)]

RECURSIVE CollectHitsKeepAll(_, _, _, _)
\* the doc loop without `if (score <= 0) continue`
CollectHitsKeepAll(ds, q, words, i) ==
    IF i > Len(ds) THEN <<>>
    ELSE <<MakeHit(ds[i], q, DocScore(ds[i], q, words))>>
         \o CollectHitsKeepAll(ds, q, words, i + 1)

RECURSIVE CollectHits(_, _, _, _)
\* for (const doc of docs) { ... hits.push(...) }: the hits pushed from doc i on
CollectHits(ds, q, words, i) ==
    IF i > Len(ds) THEN <<>>
    ELSE LET score == DocScore(ds[i], q, words)
         IN  (IF score <= 0 THEN <<>> ELSE <<MakeHit(ds[i], q, score)>>)
             \o CollectHits(ds, q, words, i + 1)

\* the comparator of an ascending sort
CompareHitsAscending(a, b) == a.score - b.score

\* the comparator (a, b) => b.score - a.score
CompareHits(a, b) == b.score - a.score

\* one step of a sort that puts h before the elements it ties with
InsertHitBeforeTies(sorted, h) ==
    LET k == Cardinality({j \in 1..Len(sorted) : CompareHits(sorted[j], h) < 0})
    IN  SubSeq(sorted, 1, k) \o <<h>> \o SubSeq(sorted, k + 1, Len(sorted))

\* one step of a stable sort: h goes after every element that does not
\* compare greater than it
InsertHit(sorted, h) ==
    LET k == Cardinality({j \in 1..Len(sorted) : CompareHits(sorted[j], h) <= 0})
    IN  SubSeq(sorted, 1, k) \o <<h>> \o SubSeq(sorted, k + 1, Len(sorted))

RECURSIVE SortFrom(_, _, _)
SortFrom(hs, i, sorted) ==
    IF i > Len(hs) THEN sorted ELSE SortFrom(hs, i + 1, InsertHit(sorted, hs[i]))

\* Array.prototype.sort with CompareHits (stable since ES2019)
SortHits(hs) == SortFrom(hs, 1, <<>>)

\* limit = 12 when the argument is omitted
LimitOf(lim) == IF lim = None THEN DefaultLimit ELSE lim[1]

\* searchDocs without the early return on an empty normalized query
searchDocsNoEmptyCheck(ds, qry, lim) ==
    LET q == normalize(qry)
    IN  Slice(SortHits(CollectHits(ds, q, Words(q), 1)), 0, LimitOf(lim))

\* searchDocs keeping one hit more than limit
searchDocsSliceInclusive(ds, qry, lim) ==
    LET q == normalize(qry)
    IN  IF q = <<>> THEN <<>>
        ELSE Slice(SortHits(CollectHits(ds, q, Words(q), 1)), 0, LimitOf(lim) + 1)

\* searchDocs truncating before it sorts
searchDocsTruncateFirst(ds, qry, lim) ==
    LET q == normalize(qry)
    IN  IF q = <<>> THEN <<>>
        ELSE SortHits(Slice(CollectHits(ds, q, Words(q), 1), 0, LimitOf(lim)))

\* searchDocs taking the words from the query as typed
searchDocsRawWords(ds, qry, lim) ==
    LET q == normalize(qry)
    IN  IF q = <<>> THEN <<>>
        ELSE Slice(SortHits(CollectHits(ds, q, Words(qry), 1)), 0, LimitOf(lim))

\* searchDocs pushing on the hit list of the previous call
searchDocsSharedHits(ds, qry, lim) ==
    LET q == normalize(qry)
    IN  IF q = <<>> THEN <<>>
        ELSE Slice(SortHits(hits \o CollectHits(ds, q, Words(q), 1)), 0, LimitOf(lim))

\* export function searchDocs(docs, query, limit = 12)
searchDocs(ds, qry, lim) ==
    LET q == normalize(qry)
    IN  IF q = <<>> THEN <<>>
        ELSE Slice(SortHits(CollectHits(ds, q, Words(q), 1)), 0, LimitOf(lim))

(***************************************************************************)
(* Inputs.                                                                 *)
(***************************************************************************)
MaxDocs == 2        \* longest collection drawn from ShortPool
MaxQueryLen == 2    \* longest query drawn from QueryAlphabet
MaxLimit == 2       \* largest explicit limit of a direct call
MaxCalls == 2       \* how often the direct call is repeated

Rep(c, n) == [i \in 1..n |-> c]

Doc(id, label, category, href, content) ==
    [id |-> id, label |-> label, category |-> category, href |-> href,
     content |-> content]
\* sidebarConfig: section ids and titles, item ids and labels
SectionNyte == [id |-> "nyte", title |-> <<"N", "y", "t", "e", ".", "j", "s">>]
SectionAuth == [id |-> "nyte-auth", title |-> <<"N", "y", "t", "e", " ", "A", "u", "t", "h">>]

\* the text of the bundled page (item.file); a body that is not a string is <<>>
PageFile(id) ==
    IF id = "rpc" THEN <<"N", "y", "t", "e", ".", "j", "s", " ", "p", "r", "o", "v", "i", "d", "e", "s", " ", "a", " ", "b", "u", "i", "l", "t", "-", "i", "n", " ", "R", "P", "C", " ", "s", "y", "s", "t", "e", "m", ".", ".", ".">>
    ELSE IF id = "routing" THEN <<"R", "o", "u", "t", "i", "n", "g", " ", " ", "i", "n", TAB, "N", "y", "t", "e", ".", "j", "s">>
    ELSE IF id = "introduction" THEN <<"W", "e", "l", "c", "o", "m", "e", " ", "t", "o", " ", "N", "y", "t", "e", ".", "j", "s">>
    ELSE IF id = "sessions" THEN <<"S", "e", "s", "s", "i", "o", "n", "s">>
    ELSE <<>>

\* an element of docsForSearch identified by its section
SidebarDocSectionId(section, id, label) ==
    Doc(section.id, label, Some(section.title), "/docs/" \o section.id \o "/" \o id, Some(PageFile(id)))

\* one element of docsForSearch
SidebarDoc(section, id, label) ==
    Doc(id, label, Some(section.title), "/docs/" \o section.id \o "/" \o id, Some(PageFile(id)))

\* docsForSearch of NyteDocs and NyteLanding
SidebarDocs == <<
    SidebarDoc(SectionNyte, "introduction", <<"I", "n", "t", "r", "o", "d", "u", "c", "t", "i", "o", "n">>),
    SidebarDoc(SectionNyte, "installation", <<"I", "n", "s", "t", "a", "l", "l", "a", "t", "i", "o", "n">>),
    SidebarDoc(SectionNyte, "project-structure", <<"P", "r", "o", "j", "e", "c", "t", " ", "S", "t", "r", "u", "c", "t", "u", "r", "e">>),
    SidebarDoc(SectionNyte, "layout", <<"L", "a", "y", "o", "u", "t", " ", "S", "y", "s", "t", "e", "m">>),
    SidebarDoc(SectionNyte, "routing", <<"R", "o", "u", "t", "i", "n", "g">>),
    SidebarDoc(SectionNyte, "rpc", <<"R", "P", "C", " ", "S", "y", "s", "t", "e", "m">>),
    SidebarDoc(SectionNyte, "middlewares", <<"M", "i", "d", "d", "l", "e", "w", "a", "r", "e", "s">>),
    SidebarDoc(SectionAuth, "introduction-auth", <<"O", "v", "e", "r", "v", "i", "e", "w">>),
    SidebarDoc(SectionAuth, "installation-auth", <<"S", "e", "t", "u", "p", " ", "A", "u", "t", "h">>),
    SidebarDoc(SectionAuth, "providers", <<"P", "r", "o", "v", "i", "d", "e", "r", "s">>),
    SidebarDoc(SectionAuth, "sessions", <<"S", "e", "s", "s", "i", "o", "n", "s">>),
    SidebarDoc(SectionAuth, "protecting-routes", <<"P", "r", "o", "t", "e", "c", "t", "i", "n", "g", " ", "R", "o", "u", "t", "e", "s">>),
    SidebarDoc(SectionAuth, "custom-providers", <<"C", "u", "s", "t", "o", "m", " ", "P", "r", "o", "v", "i", "d", "e", "r", "s">>) >>

\* the document of the worked example
RpcDoc ==
    Doc("rpc", <<"R", "P", "C", " ", "S", "y", "s", "t", "e", "m">>, Some(<<"N", "y", "t", "e", ".", "j", "s">>), "/docs/nyte/rpc",
        Some(<<"N", "y", "t", "e", ".", "j", "s", " ", "p", "r", "o", "v", "i", "d", "e", "s", " ", "a", " ", "b", "u", "i", "l", "t", "-", "i", "n", " ", "R", "P", "C", " ", "s", "y", "s", "t", "e", "m", ".", ".", ".">>))

\* short documents: accents, case, optional fields, white-space runs
ShortPool == {
    Doc("a", <<"R", EAcute>>, None, "/a", None),
    Doc("b", <<"x">>, Some(<<"R", "e">>), "/b", Some(<<EAcuteUpper, " ", "r">>)),
    Doc("c", <<"e">>, None, "/c", Some(<<>>)),
    Doc("d", <<"x">>, None, "/d", Some(<<" ", "r", " ", TAB, " ", "e", " ">>)) }

\* documents whose content is longer than the snippet window
LongPool == {
    RpcDoc,
    Doc("l1", <<"x">>, None, "/l1",
        Some(Rep("x", SnippetBefore) \o <<"r", "e">> \o Rep("x", SnippetAfter))),
    Doc("l2", <<"x">>, None, "/l2",
        Some(Rep("x", 40) \o <<" ", TAB>> \o Rep("x", SnippetBefore - 40) \o <<"R", "e">>
             \o Rep("x", SnippetAfter + 1))),
    Doc("l3", <<"x">>, None, "/l3",
        Some(Rep(IDotUpper, SnippetBefore + 1) \o <<"r", "e">>)) }

\* the collections searched: every sequence of at most MaxDocs distinct short
\* documents, each long document alone, and the pages of the site
Collections ==
    (UNION {{s \in [1..n -> ShortPool] : \A i, j \in 1..n : s[i] = s[j] => i = j}
            : n \in 0..MaxDocs})
    \cup {<<d>> : d \in LongPool}
    \cup {SidebarDocs}

QueryAlphabet == {"r", "e", " ", EAcuteUpper}

ExtraQueries == {
    <<"R", "P", "C">>, <<"r", "p", "c", " ", " ", "s", "y", "s", "t", "e", "m">>, <<"r", " ", "e">>,
    <<"e", " ", "e">>, <<"e", " ", "r">>, <<"n", "y", "t", "e">>,
    <<"x", "y", "z", "z", "y">>, <<TAB, " ">>, <<CombAcute>> }

\* the query strings typed or passed
Queries == (UNION {[1..n -> QueryAlphabet] : n \in 0..MaxQueryLen}) \cup ExtraQueries

\* the query of the direct call that is repeated around the searches of the modal
InterleavedQueries == {<<>>, <<"r">>}

\* the limit argument: omitted, or an integer (Init adds the length of docs)
Limits == {None} \cup {Some(n) : n \in -1..MaxLimit}

(***************************************************************************)
(* components/SearchModal                                                  *)
(***************************************************************************)
ModalLimit == 10

\* initialQuery = empty string, the default of the prop; neither page passes it
InitialQuery == <<>>

\* const results = useMemo(() => { ... }, [docs, query])
Results(ds, q) ==
    IF Trim(q) = <<>> THEN <<>> ELSE searchDocs(ds, q, Some(ModalLimit))

\* the render with the idle prompt chosen by the normalized query
DisplayIdleByNormalizedQuery ==
    IF ~open THEN "null"
    ELSE IF Len(results) > 0 THEN "hits"
    ELSE IF normalize(mquery) # <<>> THEN "noResults"
    ELSE "idle"

\* what the component renders: null when closed, else the hit list, the
\* "No results found" text or the "Type to search docs..." prompt
Display ==
    IF ~open THEN "null"
    ELSE IF Len(results) > 0 THEN "hits"
    ELSE IF Trim(mquery) # <<>> THEN "noResults"
    ELSE "idle"

\* what is typed into the input of the modal
ModalQueries == {
    <<>>, <<" ">>, <<"r">>, <<EAcuteUpper>>, <<"r", " ", "e">>, <<CombAcute>>,
    <<"n", "y", "t", "e">>, <<"x", "y", "z", "z", "y">> }

(***************************************************************************)
(* hooks/useScrollReveal                                                   *)
(***************************************************************************)
\* once = true when the option is omitted
DefaultOnce == TRUE

MaxEntries == 2         \* longest batch of entries one callback delivers
MaxObservations == 4    \* entries delivered in one behaviour

\* the entries argument of the observer callback: isIntersecting of each entry
EntryBatches == UNION {[1..n -> BOOLEAN] : n \in 0..MaxEntries}

(***************************************************************************)
(* components/docs (NyteDocs) and components/index (NyteLanding)           *)
(***************************************************************************)
\* const pageId = params?.value2 || 'introduction'
DefaultPageId == "introduction"

\* { intensity = 24, axis = 'y', invert = false }: ParallaxOptions = {}
DefaultParallaxOptions == [intensity |-> 24, axis |-> "y", invert |-> FALSE]

\* the options of the two useParallax calls of NyteDocs, after defaulting
ParallaxCalls == {
    [DefaultParallaxOptions EXCEPT !.intensity = 18, !.invert = TRUE],
    [DefaultParallaxOptions EXCEPT !.intensity = 14, !.invert = FALSE] }

\* no component that calls useParallax has been rendered
ParallaxNotRendered ==
    /\ pxPhase = "none"
    /\ pxEnabled = TRUE
    /\ pxEl = FALSE
    /\ pxOptions = DefaultParallaxOptions
    /\ raf = 0
    /\ frames = {}
    /\ scrollListener = FALSE
    /\ resizeListener = FALSE
    /\ scrollY = 0
    /\ innerHeight = 1
    /\ transform = None
    /\ writes = 0
    /\ uiEvents = 0

\* a value of params.value2 that is no item of sidebarConfig
UnknownPageId == "no-such-page"

\* getAllPages(): the items of all sections, flattened, by id
AllPages == [i \in 1..Len(SidebarDocs) |-> SidebarDocs[i].id]

\* allPages.findIndex(page => page.id === currentId), zero-based, -1 when absent
FindIndex(pages, id) ==
    IF \E i \in 1..Len(pages) : pages[i] = id
    THEN (CHOOSE i \in 1..Len(pages) :
              pages[i] = id /\ \A j \in 1..(i - 1) : pages[j] # id) - 1
    ELSE -1

\* getNavigationPages(currentId); null is None
getNavigationPages(currentId) ==
    LET currentIndex == FindIndex(AllPages, currentId)
    IN  [previous |-> IF currentIndex > 0 THEN Some(AllPages[currentIndex]) ELSE None,
         next |-> IF currentIndex < Len(AllPages) - 1
                  THEN Some(AllPages[currentIndex + 2]) ELSE None]

\* the keys of the keydown events
KeyNames == {"k", "K", "Escape", "a"}

\* e.key.toLowerCase()
KeyToLowerCase(key) ==
    IF key = "K" THEN "k" ELSE IF key = "Escape" THEN "escape" ELSE key

\* the KeyboardEvent fields the handlers read
KeyEvents == [ctrlKey : BOOLEAN, metaKey : BOOLEAN, key : KeyNames]

\* no keydown event yet
NoKey == [ctrlKey |-> FALSE, metaKey |-> FALSE, key |-> "none"]

\* the first condition of handleKeyDown, of NyteDocs and of NyteLanding
IsOpenShortcut(pg, e) ==
    /\ e.ctrlKey \/ e.metaKey
    /\ IF pg = "docs" THEN KeyToLowerCase(e.key) = "k" ELSE e.key = "k"

(***************************************************************************)
(* The state machine.  A behaviour fixes a collection and the arguments of *)
(* a direct call of searchDocs.  In scenario "call" the arguments range    *)
(* over Queries and Limits and the modal stays closed; in scenario "modal" *)
(* they are one of two queries and the default limit, the modal is driven, *)
(* and the call is repeated around the searches the modal runs.            *)
(* In scenario "call" the call is made once.                               *)
(* The call and the modal share nothing but the collection.                *)
(***************************************************************************)
Init ==
    /\ docs \in Collections
    /\ scenario \in {"call", "modal"}
    /\ query \in (IF scenario = "call" THEN Queries ELSE InterleavedQueries)
    /\ limit \in (IF scenario = "call" THEN Limits \cup {Some(Len(docs))} ELSE {None})
    /\ hits = <<>>
    /\ called = FALSE
    /\ calls = 0
    /\ between = FALSE
    /\ open = FALSE
    /\ mquery = InitialQuery
    /\ results = Results(docs, InitialQuery)
    /\ effectPending = FALSE
    /\ once = DefaultOnce
    /\ node = FALSE
    /\ hasObserver = FALSE
    /\ isVisible = FALSE
    /\ io = "none"
    /\ revealPhase = "rendered"
    /\ observations = <<>>
    /\ reduced = FALSE
    /\ mediaMatches = FALSE
    /\ hasMatchMedia = FALSE
    /\ modernMedia = FALSE
    /\ mediaListener = "none"
    /\ motionPhase = "rendered"
    /\ changePending = FALSE
    /\ changes = 0
    /\ page = "docs"
    /\ activeSection = DefaultPageId
    /\ lastKey = NoKey
    /\ ParallaxNotRendered

\* how often the direct call is made: once alone, MaxCalls times around the
\* searches of the modal
CallsIn(scen) == IF scen = "call" THEN 1 ELSE MaxCalls

\* the call with the sort applied to the input array in place
SearchCallSortsInput ==
    /\ calls < CallsIn(scenario)
    /\ hits' = searchDocs(docs, query, limit)
    /\ docs' = [i \in 1..Len(hits') |-> docs[CHOOSE j \in 1..Len(docs) : docs[j].id = hits'[i].id]]
              \o SelectSeq(docs, LAMBDA d : \A i \in 1..Len(hits') : hits'[i].id # d.id)
    /\ called' = TRUE
    /\ calls' = calls + 1
    /\ UNCHANGED <<query, limit, between, scenario, open, mquery, results, effectPending,
                   revealVars, motionVars, pageVars, parallaxVars>>

\* the call searchDocs(docs, query, limit) returns
SearchCall ==
    /\ calls < CallsIn(scenario)
    /\ hits' = searchDocs(docs, query, limit)
    /\ called' = TRUE
    /\ calls' = calls + 1
    /\ UNCHANGED <<docs, query, limit, between, scenario, open, mquery, results, effectPending,
                   revealVars, motionVars, pageVars, parallaxVars>>

\* the parent sets open = true: the modal renders, the open effect is scheduled
OpenModal ==
    /\ scenario = "modal"
    /\ open' = TRUE
    /\ effectPending' = (effectPending \/ ~open)
    /\ UNCHANGED <<docs, query, limit, hits, called, calls, between, scenario, mquery, results,
                   revealVars, motionVars, pageVars, parallaxVars>>

\* the open effect without setQuery(initialQuery)
RunOpenEffectKeepsQuery ==
    /\ effectPending
    /\ effectPending' = FALSE
    /\ UNCHANGED <<docs, query, limit, hits, called, calls, between, scenario, open, mquery,
                   results, revealVars, motionVars, pageVars, parallaxVars>>

\* useEffect(() => { if (!open) return; setQuery(initialQuery); ... }, [open, initialQuery])
RunOpenEffect ==
    /\ effectPending
    /\ effectPending' = FALSE
    /\ mquery' = (IF open THEN InitialQuery ELSE mquery)
    /\ results' = Results(docs, mquery')
    /\ UNCHANGED <<docs, query, limit, hits, called, calls, between, scenario, open,
                   revealVars, motionVars, pageVars, parallaxVars>>

\* the input handler with the memo left as it was
TypeQueryStaleResults(q) ==
    /\ open
    /\ ~effectPending
    /\ mquery' = q
    /\ between' = (between \/ (calls >= 1 /\ calls < CallsIn(scenario) /\ Trim(q) # <<>>))
    /\ UNCHANGED <<docs, query, limit, hits, called, calls, scenario, open, effectPending,
                   results, revealVars, motionVars, pageVars, parallaxVars>>

\* onChange={(e) => setQuery(e.target.value)}
TypeQuery(q) ==
    /\ open
    /\ ~effectPending
    /\ mquery' = q
    /\ results' = Results(docs, q)
    /\ between' = (between \/ (calls >= 1 /\ calls < CallsIn(scenario) /\ Trim(q) # <<>>))
    /\ UNCHANGED <<docs, query, limit, hits, called, calls, scenario, open, effectPending,
                   revealVars, motionVars, pageVars, parallaxVars>>

\* onClose(): the parent sets open = false; the effect returns at once
CloseModal ==
    /\ scenario = "modal"
    /\ ~effectPending
    /\ open' = FALSE
    /\ UNCHANGED <<docs, query, limit, hits, called, calls, between, scenario, mquery, results,
                   effectPending,
                   revealVars, motionVars, pageVars, parallaxVars>>

Next ==
    \/ SearchCall
    \/ OpenModal
    \/ RunOpenEffect
    \/ \E q \in ModalQueries : TypeQuery(q)
    \/ CloseModal

Spec == Init /\ [][Next]_vars

(***************************************************************************)
(* The state machine of one useScrollReveal instance.  A behaviour fixes   *)
(* the option `once`, whether the ref holds an element and whether the     *)
(* browser has IntersectionObserver; the search is not used.               *)
(***************************************************************************)
InitReveal ==
    /\ docs = <<>>
    /\ scenario = "reveal"
    /\ query = <<>>
    /\ limit = None
    /\ hits = <<>>
    /\ called = FALSE
    /\ calls = 0
    /\ between = FALSE
    /\ open = FALSE
    /\ mquery = InitialQuery
    /\ results = <<>>
    /\ effectPending = FALSE
    /\ once \in {DefaultOnce, FALSE}
    /\ node \in BOOLEAN
    /\ hasObserver \in BOOLEAN
    /\ isVisible = FALSE
    /\ io = "none"
    /\ revealPhase = "rendered"
    /\ observations = <<>>
    /\ reduced = FALSE
    /\ mediaMatches = FALSE
    /\ hasMatchMedia = FALSE
    /\ modernMedia = FALSE
    /\ mediaListener = "none"
    /\ motionPhase = "rendered"
    /\ changePending = FALSE
    /\ changes = 0
    /\ page = "docs"
    /\ activeSection = DefaultPageId
    /\ lastKey = NoKey
    /\ ParallaxNotRendered

\* the body of useEffect(() => { ... }, [once, rootMargin, threshold])
RevealEffect ==
    /\ revealPhase = "rendered"
    /\ revealPhase' = "mounted"
    /\ IF ~node THEN UNCHANGED <<isVisible, io>>
       ELSE IF ~hasObserver THEN isVisible' = TRUE /\ UNCHANGED io
       ELSE io' = "observing" /\ UNCHANGED isVisible
    /\ UNCHANGED <<searchVars, once, node, hasObserver, observations, motionVars, pageVars, parallaxVars>>

\* the callback (entries) => { ... } of the observer; a batch queued before
\* disconnect() is still delivered
ObserverCallback(entries) ==
    /\ revealPhase = "mounted"
    /\ io # "none"
    /\ Len(observations) + Len(entries) <= MaxObservations
    /\ observations' = observations \o entries
    /\ IF entries = <<>> THEN UNCHANGED <<isVisible, io>>
       ELSE IF entries[1]
            THEN isVisible' = TRUE /\ io' = (IF once THEN "disconnected" ELSE io)
       ELSE IF ~once THEN isVisible' = FALSE /\ UNCHANGED io
       ELSE UNCHANGED <<isVisible, io>>
    /\ UNCHANGED <<searchVars, once, node, hasObserver, revealPhase, motionVars, pageVars, parallaxVars>>

\* the cleanup () => io.disconnect() when the component unmounts
RevealCleanup ==
    /\ revealPhase = "mounted"
    /\ revealPhase' = "unmounted"
    /\ io' = (IF io = "none" THEN "none" ELSE "disconnected")
    /\ UNCHANGED <<searchVars, once, node, hasObserver, isVisible, observations, motionVars, pageVars, parallaxVars>>

NextReveal ==
    \/ RevealEffect
    \/ \E entries \in EntryBatches : ObserverCallback(entries)
    \/ RevealCleanup

SpecReveal == InitReveal /\ [][NextReveal]_vars

(***************************************************************************)
(* hooks/usePrefersReducedMotion.  A behaviour fixes whether the browser   *)
(* has matchMedia and which registration call the MediaQueryList offers;   *)
(* the user preference changes at any time.                                *)
(***************************************************************************)
MaxChanges == 2     \* change events dispatched in one behaviour

\* the mount effect without the first call of update()
MotionEffectNoUpdate ==
    /\ motionPhase = "rendered"
    /\ motionPhase' = "mounted"
    /\ IF ~hasMatchMedia THEN UNCHANGED <<reduced, mediaListener>>
       ELSE /\ UNCHANGED reduced
            /\ mediaListener' = (IF modernMedia THEN "event" ELSE "legacy")
    /\ UNCHANGED <<searchVars, revealVars, mediaMatches, hasMatchMedia, modernMedia,
                   changePending, changes, pageVars, parallaxVars>>

\* the body of useEffect(() => { ... }, [])
MotionEffect ==
    /\ motionPhase = "rendered"
    /\ motionPhase' = "mounted"
    /\ IF ~hasMatchMedia THEN UNCHANGED <<reduced, mediaListener>>
       ELSE /\ reduced' = mediaMatches
            /\ mediaListener' = (IF modernMedia THEN "event" ELSE "legacy")
    /\ UNCHANGED <<searchVars, revealVars, mediaMatches, hasMatchMedia, modernMedia,
                   changePending, changes, pageVars, parallaxVars>>

\* the user preference changes; the browser queues the change event
MediaFlip ==
    /\ changes < MaxChanges
    /\ mediaMatches' = ~mediaMatches
    /\ changePending' = TRUE
    /\ UNCHANGED <<searchVars, revealVars, reduced, hasMatchMedia, modernMedia, mediaListener,
                   motionPhase, changes, pageVars, parallaxVars>>

\* the change event is dispatched: update() runs when it is registered
ChangeEvent ==
    /\ changePending
    /\ changePending' = FALSE
    /\ changes' = changes + 1
    /\ reduced' = (IF mediaListener # "none" THEN mediaMatches ELSE reduced)
    /\ UNCHANGED <<searchVars, revealVars, mediaMatches, hasMatchMedia, modernMedia,
                   mediaListener, motionPhase, pageVars, parallaxVars>>

\* the cleanup: removeEventListener or removeListener of update
MotionCleanup ==
    /\ motionPhase = "mounted"
    /\ motionPhase' = "unmounted"
    /\ mediaListener' = "none"
    /\ UNCHANGED <<searchVars, revealVars, reduced, mediaMatches, hasMatchMedia, modernMedia,
                   changePending, changes, pageVars, parallaxVars>>

InitMotion ==
    /\ docs = <<>>
    /\ scenario = "motion"
    /\ query = <<>>
    /\ limit = None
    /\ hits = <<>>
    /\ called = FALSE
    /\ calls = 0
    /\ between = FALSE
    /\ open = FALSE
    /\ mquery = InitialQuery
    /\ results = <<>>
    /\ effectPending = FALSE
    /\ once = DefaultOnce
    /\ node = FALSE
    /\ hasObserver = FALSE
    /\ isVisible = FALSE
    /\ io = "none"
    /\ revealPhase = "rendered"
    /\ observations = <<>>
    /\ reduced = FALSE
    /\ mediaMatches \in BOOLEAN
    /\ hasMatchMedia \in BOOLEAN
    /\ modernMedia \in BOOLEAN
    /\ mediaListener = "none"
    /\ motionPhase = "rendered"
    /\ changePending = FALSE
    /\ changes = 0
    /\ page = "docs"
    /\ activeSection = DefaultPageId
    /\ lastKey = NoKey
    /\ ParallaxNotRendered

NextMotion ==
    \/ MotionEffect
    \/ MediaFlip
    \/ ChangeEvent
    \/ MotionCleanup

SpecMotion == InitMotion /\ [][NextMotion]_vars

(***************************************************************************)
(* The state machine of a page with its search modal: the keydown          *)
(* handlers of the page and of the modal, the modal itself, and on the     *)
(* docs page the navigation between the pages of the sidebar.              *)
(***************************************************************************)
InitPage ==
    /\ docs = SidebarDocs
    /\ scenario = "page"
    /\ query = <<>>
    /\ limit = None
    /\ hits = <<>>
    /\ called = FALSE
    /\ calls = 0
    /\ between = FALSE
    /\ open = FALSE
    /\ mquery = InitialQuery
    /\ results = Results(docs, InitialQuery)
    /\ effectPending = FALSE
    /\ once = DefaultOnce
    /\ node = FALSE
    /\ hasObserver = FALSE
    /\ isVisible = FALSE
    /\ io = "none"
    /\ revealPhase = "rendered"
    /\ observations = <<>>
    /\ reduced = FALSE
    /\ mediaMatches = FALSE
    /\ hasMatchMedia = FALSE
    /\ modernMedia = FALSE
    /\ mediaListener = "none"
    /\ motionPhase = "rendered"
    /\ changePending = FALSE
    /\ changes = 0
    /\ page \in {"docs", "landing"}
    /\ activeSection \in (IF page = "docs"
                           THEN {AllPages[i] : i \in 1..Len(AllPages)} \cup {UnknownPageId}
                           ELSE {DefaultPageId})
    /\ lastKey = NoKey
    /\ ParallaxNotRendered

\* a keydown event on window: handleKeyDown of the page, then onKeyDown of
\* the modal when it is open; the handlers run after the pending effects
KeyDown(e) ==
    /\ ~effectPending
    /\ LET afterShortcut == IF IsOpenShortcut(page, e) THEN TRUE ELSE open
           afterPage == IF e.key = "Escape" THEN FALSE ELSE afterShortcut
           afterModal == IF open /\ e.key = "Escape" THEN FALSE ELSE afterPage
       IN  /\ open' = afterModal
           /\ effectPending' = (~open /\ afterModal)
    /\ lastKey' = e
    /\ UNCHANGED <<docs, query, limit, hits, called, calls, between, scenario, mquery, results,
                   revealVars, motionVars, page, activeSection, parallaxVars>>

\* navigateToPage(itemId): setActiveSection when a section holds the item
NavigateToPage(itemId) ==
    /\ page = "docs"
    /\ activeSection' = (IF FindIndex(AllPages, itemId) # -1 THEN itemId ELSE activeSection)
    /\ UNCHANGED <<searchVars, revealVars, motionVars, page, lastKey, parallaxVars>>

\* a click on an item of the sidebar
ClickSidebarItem(itemId) == NavigateToPage(itemId)

\* a click on the Previous button of the footer, rendered when previous is not null
ClickPrevious ==
    /\ getNavigationPages(activeSection).previous # None
    /\ NavigateToPage(getNavigationPages(activeSection).previous[1])

\* a click on the Next button of the footer, rendered when next is not null
ClickNext ==
    /\ getNavigationPages(activeSection).next # None
    /\ NavigateToPage(getNavigationPages(activeSection).next[1])

NextPage ==
    \/ \E e \in KeyEvents : KeyDown(e)
    \/ RunOpenEffect
    \/ \E q \in ModalQueries : TypeQuery(q)
    \/ \E i \in 1..Len(AllPages) : ClickSidebarItem(AllPages[i])
    \/ ClickPrevious
    \/ ClickNext

SpecPage == InitPage /\ [][NextPage]_vars

(***************************************************************************)
(* hooks/useParallax as NyteDocs calls it: enabled is !reducedMotion, so   *)
(* the machine runs together with usePrefersReducedMotion.  The browser    *)
(* holds the animation-frame requests and dispatches scroll and resize     *)
(* events at any time.  Lengths are in px, the translation in hundredths   *)
(* of a px (toFixed(2)).                                                   *)
(***************************************************************************)
MaxScrollY == 2     \* the largest window.scrollY
MaxUiEvents == 3    \* scroll and resize events dispatched in one behaviour

\* document.documentElement.scrollHeight
ScrollHeight == MaxScrollY + 1

\* the heights the window takes: the document scrolls, or fits exactly
InnerHeights == {1, ScrollHeight}

\* the largest scroll position the browser allows for a window height
ScrollLimit(h) == Max(0, ScrollHeight - h)

\* n / d rounded to the nearest integer, halves away from zero
RoundDiv(n, d) ==
    IF n >= 0 THEN (2 * n + d) \div (2 * d) ELSE -((2 * (-n) + d) \div (2 * d))

\* value.toFixed(2) of update(), in hundredths of a px
ParallaxValue(y, h, options) ==
    LET maxScroll == Max(1, ScrollHeight - h)
        sign == IF options.invert THEN -1 ELSE 1
    IN  RoundDiv(sign * (2 * y - maxScroll) * options.intensity * 100, maxScroll)

\* the string update() assigns to el.style.transform
TransformOf(y, h, options) ==
    IF options.axis = "x"
    THEN Some([x |-> ParallaxValue(y, h, options), y |-> 0, z |-> 0])
    ELSE Some([x |-> 0, y |-> ParallaxValue(y, h, options), z |-> 0])

\* the handle requestAnimationFrame returns: non-zero, not one the browser holds
NewHandle == CHOOSE i \in 1..(Cardinality(frames) + 1) : i \notin frames

\* the requests the browser holds after the cleanup of the effect that ran
\* last: if (raf) window.cancelAnimationFrame(raf)
FramesAfterCleanup ==
    IF pxPhase = "active" /\ raf # 0 THEN frames \ {raf} ELSE frames

\* the body of the effect, after the cleanup of the run before it.  The first
\* render has reduced = false; a later run is the one of the render after
\* reduced changed.
ParallaxEffect ==
    /\ \/ pxPhase = "rendered"
       \/ pxPhase \in {"active", "idle"} /\ pxEnabled # ~reduced
    /\ LET enabled == IF pxPhase = "rendered" THEN TRUE ELSE ~reduced
       IN  /\ pxEnabled' = enabled
           /\ IF ~enabled \/ ~pxEl
              THEN /\ pxPhase' = "idle"
                   /\ frames' = FramesAfterCleanup
                   /\ scrollListener' = FALSE
                   /\ resizeListener' = FALSE
                   /\ UNCHANGED <<raf, transform, writes>>
              ELSE /\ pxPhase' = "active"
                   /\ frames' = FramesAfterCleanup
                   /\ raf' = 0
                   /\ transform' = TransformOf(scrollY, innerHeight, pxOptions)
                   /\ writes' = writes + 1
                   /\ scrollListener' = TRUE
                   /\ resizeListener' = TRUE
    /\ UNCHANGED <<searchVars, revealVars, motionVars, pageVars, pxEl, pxOptions, scrollY,
                   innerHeight, uiEvents>>

\* the browser scrolls to y and dispatches 'scroll'; the handler requests a
\* frame whatever raf holds
ScrollNoRafCheck(y) ==
    /\ uiEvents < MaxUiEvents
    /\ y \in 0..ScrollLimit(innerHeight)
    /\ y # scrollY
    /\ scrollY' = y
    /\ uiEvents' = uiEvents + 1
    /\ IF scrollListener
       THEN raf' = NewHandle /\ frames' = frames \cup {NewHandle}
       ELSE UNCHANGED <<raf, frames>>
    /\ UNCHANGED <<searchVars, revealVars, motionVars, pageVars, pxPhase, pxEnabled, pxEl,
                   pxOptions, scrollListener, resizeListener, innerHeight, transform, writes>>

\* the browser scrolls to y and dispatches 'scroll': onScroll runs when registered
Scroll(y) ==
    /\ uiEvents < MaxUiEvents
    /\ y \in 0..ScrollLimit(innerHeight)
    /\ y # scrollY
    /\ scrollY' = y
    /\ uiEvents' = uiEvents + 1
    /\ IF scrollListener /\ raf = 0
       THEN raf' = NewHandle /\ frames' = frames \cup {NewHandle}
       ELSE UNCHANGED <<raf, frames>>
    /\ UNCHANGED <<searchVars, revealVars, motionVars, pageVars, pxPhase, pxEnabled, pxEl,
                   pxOptions, scrollListener, resizeListener, innerHeight, transform, writes>>

\* the window takes height h (the browser clamps the scroll position) and
\* dispatches 'resize': onScroll runs when registered
Resize(h) ==
    /\ uiEvents < MaxUiEvents
    /\ h # innerHeight
    /\ innerHeight' = h
    /\ scrollY' = Min(scrollY, ScrollLimit(h))
    /\ uiEvents' = uiEvents + 1
    /\ IF resizeListener /\ raf = 0
       THEN raf' = NewHandle /\ frames' = frames \cup {NewHandle}
       ELSE UNCHANGED <<raf, frames>>
    /\ UNCHANGED <<searchVars, revealVars, motionVars, pageVars, pxPhase, pxEnabled, pxEl,
                   pxOptions, scrollListener, resizeListener, transform, writes>>

\* the browser runs a request it holds: update()
AnimationFrame ==
    /\ \E handle \in frames : frames' = frames \ {handle}
    /\ raf' = 0
    /\ transform' = TransformOf(scrollY, innerHeight, pxOptions)
    /\ writes' = writes + 1
    /\ UNCHANGED <<searchVars, revealVars, motionVars, pageVars, pxPhase, pxEnabled, pxEl,
                   pxOptions, scrollListener, resizeListener, scrollY, innerHeight, uiEvents>>

\* the component unmounts: the cleanup of the effect that ran last
ParallaxCleanup ==
    /\ pxPhase \in {"active", "idle"}
    /\ pxPhase' = "unmounted"
    /\ frames' = FramesAfterCleanup
    /\ scrollListener' = FALSE
    /\ resizeListener' = FALSE
    /\ UNCHANGED <<searchVars, revealVars, motionVars, pageVars, pxEnabled, pxEl, pxOptions,
                   raf, scrollY, innerHeight, transform, writes, uiEvents>>

InitParallax ==
    /\ docs = <<>>
    /\ scenario = "parallax"
    /\ query = <<>>
    /\ limit = None
    /\ hits = <<>>
    /\ called = FALSE
    /\ calls = 0
    /\ between = FALSE
    /\ open = FALSE
    /\ mquery = InitialQuery
    /\ results = <<>>
    /\ effectPending = FALSE
    /\ once = DefaultOnce
    /\ node = FALSE
    /\ hasObserver = FALSE
    /\ isVisible = FALSE
    /\ io = "none"
    /\ revealPhase = "rendered"
    /\ observations = <<>>
    /\ reduced = FALSE
    /\ mediaMatches \in BOOLEAN
    /\ hasMatchMedia = TRUE
    /\ modernMedia = TRUE
    /\ mediaListener = "none"
    /\ motionPhase = "rendered"
    /\ changePending = FALSE
    /\ changes = 0
    /\ page = "docs"
    /\ activeSection = DefaultPageId
    /\ lastKey = NoKey
    /\ pxPhase = "rendered"
    /\ pxEnabled = TRUE
    /\ pxEl \in BOOLEAN
    /\ pxOptions \in ParallaxCalls
    /\ raf = 0
    /\ frames = {}
    /\ scrollListener = FALSE
    /\ resizeListener = FALSE
    /\ innerHeight \in InnerHeights
    /\ scrollY = 0
    /\ transform = None
    /\ writes = 0
    /\ uiEvents = 0

NextParallax ==
    \/ MotionEffect
    \/ MediaFlip
    \/ ChangeEvent
    \/ MotionCleanup
    \/ ParallaxEffect
    \/ \E y \in 0..MaxScrollY : Scroll(y)
    \/ \E h \in InnerHeights : Resize(h)
    \/ AnimationFrame
    \/ ParallaxCleanup

SpecParallax == InitParallax /\ [][NextParallax]_vars

(***************************************************************************)
(* Properties.                                                             *)
(***************************************************************************)
QueryNorm == normalize(query)

HitIds(hs) == {hs[i].id : i \in 1..Len(hs)}

\* the document of the collection with this id (ids are distinct in Collections)
DocWithId(id) == docs[CHOOSE i \in 1..Len(docs) : docs[i].id = id]

Bit(b) == IF b THEN 1 ELSE 0

\* the score the scoring rules give document d for the normalized query q
ExpectedScore(d, q) ==
    LET T == Words(q)
        labelNorm == normalize(d.label)
        categoryNorm == normalize(OrEmpty(d.category))
        contentNorm == normalize(OrEmpty(d.content))
    IN  40 * Bit(Includes(labelNorm, q))
        + 10 * Bit(Includes(categoryNorm, q))
        + 15 * Bit(Includes(contentNorm, q))
        + 8 * Cardinality({i \in 1..Len(T) : Includes(labelNorm, T[i])})
        + 2 * Cardinality({i \in 1..Len(T) : Includes(contentNorm, T[i])})

\* C1: for a non-empty normalized query every hit carries the score
\* 40*[label has q] + 10*[category has q] + 15*[content has q] + the sum over
\* the tokens, once per occurrence, of 8*[label has t] + 2*[content has t];
\* the RPC System document scores 65 for the query RPC.
C1_ScoreFormula ==
    called /\ QueryNorm # <<>> =>
        /\ \A i \in 1..Len(hits) :
              hits[i].score = ExpectedScore(DocWithId(hits[i].id), QueryNorm)
        /\ (docs = <<RpcDoc>> /\ query = <<"R", "P", "C">> /\ LimitOf(limit) >= 1
              => Len(hits) = 1 /\ hits[1].score = 65)

C1_Witness ==
    /\ called
    /\ docs = <<RpcDoc>>
    /\ query = <<"R", "P", "C">>
    /\ Len(hits) = 1
    /\ hits[1].score = 65

\* every character of s is white space (s may be empty)
Blank(s) == \A i \in 1..Len(s) : IsSpace(s[i])

\* C2: an empty or white-space-only query gives no hits, whatever the
\* collection and the limit, from searchDocs and in the modal.
C2_BlankQueryNoHits ==
    /\ (called /\ Blank(query) => hits = <<>>)
    /\ (Blank(mquery) => results = <<>>)

C2_Witness ==
    /\ docs = SidebarDocs
    /\ called /\ Blank(query) /\ hits = <<>>
    /\ open /\ ~effectPending /\ mquery = <<" ">> /\ results = <<>>

\* lower-cased and accent-stripped: the form compared case- and accent-insensitively
Fold(s) == StripDiacritics(NFD(ToLowerCase(s)))

LabelContains(d, qry) == Includes(Fold(d.label), Fold(qry))

\* C3 as stated: with limit at least the number of documents, every document
\* whose label contains the query case- and accent-insensitively is in the
\* result, for every query.
C3_LabelMatchReturned_AsStated ==
    called /\ LimitOf(limit) >= Len(docs) =>
        \A i \in 1..Len(docs) :
            LabelContains(docs[i], query) => docs[i].id \in HitIds(hits)

\* C3 amended: the same for every query whose normalized form is not empty.
C3_LabelMatchReturned ==
    called /\ LimitOf(limit) >= Len(docs) /\ QueryNorm # <<>> =>
        \A i \in 1..Len(docs) :
            LabelContains(docs[i], query) => docs[i].id \in HitIds(hits)

C3_Witness ==
    /\ called
    /\ Len(docs) = 2
    /\ limit = Some(2)
    /\ query = <<"e">>
    /\ docs[1].label = <<"R", EAcute>>
    /\ LabelContains(docs[1], query)
    /\ docs[1].id \in HitIds(hits)

\* C4: the result is never longer than a limit >= 0 (0 included), and never
\* longer than 12 when the limit is omitted.
C4_LengthAtMostLimit ==
    called =>
        /\ (limit # None /\ limit[1] >= 0 => Len(hits) <= limit[1])
        /\ (limit = None => Len(hits) <= 12)

C4_Witness ==
    /\ called
    /\ limit = None
    /\ docs = SidebarDocs
    /\ query = <<"n", "y", "t", "e">>
    /\ Len(hits) = 12

\* C5: adjacent hits are in descending order of score.
C5_SortedDescending ==
    called => \A i \in 1..(Len(hits) - 1) : hits[i].score >= hits[i + 1].score

C5_Witness ==
    /\ called
    /\ Len(docs) = 2
    /\ Len(hits) = 2
    /\ hits[1].id = docs[2].id
    /\ hits[2].id = docs[1].id
    /\ hits[1].score > hits[2].score

\* no normalized field of any document contains the query or one of its tokens
NothingMatches ==
    \A i \in 1..Len(docs) :
        \A t \in {QueryNorm} \cup {Words(QueryNorm)[k] : k \in 1..Len(Words(QueryNorm))} :
            /\ ~Includes(normalize(docs[i].label), t)
            /\ ~Includes(normalize(OrEmpty(docs[i].category)), t)
            /\ ~Includes(normalize(OrEmpty(docs[i].content)), t)

\* C6: every hit has score > 0; with limit at least the number of documents
\* the result holds exactly the documents scored > 0 (for an empty normalized
\* query no document is scored and the result is empty); when no field of any
\* document contains the query or a token, the result is empty.
C6_ExactlyPositiveScores ==
    called =>
        /\ \A i \in 1..Len(hits) : hits[i].score > 0
        /\ (LimitOf(limit) >= Len(docs) =>
              HitIds(hits) =
                 IF QueryNorm = <<>> THEN {}
                 ELSE {docs[i].id : i \in {j \in 1..Len(docs) :
                                              ExpectedScore(docs[j], QueryNorm) > 0}})
        /\ (NothingMatches => hits = <<>>)

C6_Witness ==
    /\ called
    /\ Len(docs) = 2
    /\ limit = Some(2)
    /\ QueryNorm # <<>>
    /\ ExpectedScore(docs[1], QueryNorm) = 0
    /\ HitIds(hits) = {docs[2].id}

LabelMatches(d) == Includes(normalize(d.label), QueryNorm)

\* d matches in content or category, and its label holds neither the query
\* nor a token
MatchesOutsideLabelOnly(d) ==
    /\ ExpectedScore(d, QueryNorm) > 0
    /\ ~LabelMatches(d)
    /\ \A k \in 1..Len(Words(QueryNorm)) :
          ~Includes(normalize(d.label), Words(QueryNorm)[k])

PositionOf(hs, id) == CHOOSE i \in 1..Len(hs) : hs[i].id = id

\* C7: a document whose label contains the full query ranks strictly before
\* one that matches only in content (or content and category): whenever the
\* latter is returned the former is returned earlier with a greater score,
\* and with limit 1 and one document of each kind only the former is returned.
C7_LabelMatchRanksFirst ==
    called /\ QueryNorm # <<>> =>
        \A i, j \in 1..Len(docs) :
            LabelMatches(docs[i]) /\ MatchesOutsideLabelOnly(docs[j]) =>
                /\ (docs[j].id \in HitIds(hits) =>
                      /\ docs[i].id \in HitIds(hits)
                      /\ PositionOf(hits, docs[i].id) < PositionOf(hits, docs[j].id)
                      /\ hits[PositionOf(hits, docs[i].id)].score
                            > hits[PositionOf(hits, docs[j].id)].score)
                /\ (limit = Some(1) /\ Len(docs) = 2 =>
                      Len(hits) = 1 /\ hits[1].id = docs[i].id)

C7_Witness ==
    /\ called
    /\ QueryNorm # <<>>
    /\ Len(docs) = 2
    /\ limit = Some(1)
    /\ MatchesOutsideLabelOnly(docs[1])
    /\ LabelMatches(docs[2])
    /\ Len(hits) = 1
    /\ hits[1].id = docs[2].id

\* the result of the same call with a limit that truncates nothing
Untruncated == searchDocs(docs, query, Some(Len(docs)))

\* C8: with limit n >= 0 the result is the first n elements of the
\* untruncated result, and no omitted document scores strictly more than a
\* returned hit.
C8_TruncationKeepsBest ==
    called /\ LimitOf(limit) >= 0 =>
        /\ hits = SubSeq(Untruncated, 1, Min(LimitOf(limit), Len(Untruncated)))
        /\ \A i \in 1..Len(docs) :
              docs[i].id \notin HitIds(hits) =>
                  \A j \in 1..Len(hits) :
                      ExpectedScore(docs[i], QueryNorm) <= hits[j].score

C8_Witness ==
    /\ called
    /\ limit = Some(1)
    /\ Len(docs) = 2
    /\ Len(Untruncated) = 2
    /\ Untruncated[1].score > Untruncated[2].score
    /\ hits = <<Untruncated[1]>>
    /\ hits[1].id = docs[2].id

HasNoContent(d) == d.content = None \/ d.content = Some(<<>>)

\* C9: a hit for a document whose content is absent or empty has no snippet,
\* from searchDocs and in the modal.
C9_NoContentNoSnippet ==
    /\ called => \A i \in 1..Len(hits) :
                    HasNoContent(DocWithId(hits[i].id)) => hits[i].snippet = None
    /\ \A i \in 1..Len(results) :
          HasNoContent(DocWithId(results[i].id)) => results[i].snippet = None

C9_Witness ==
    /\ called
    /\ Len(hits) = 2
    /\ DocWithId(hits[1].id).content = None
    /\ DocWithId(hits[2].id).content = Some(<<>>)
    /\ hits[1].snippet = None
    /\ hits[2].snippet = None

\* C10: when the white-space-collapsed, lower-cased content contains the
\* query string handed to makeSnippet, the hit has a snippet that contains the
\* matched text, with a leading ellipsis exactly when the window starts after
\* the start of the collapsed content and a trailing one exactly when it
\* ends before its end.
C10_SnippetContainsMatch ==
    called /\ QueryNorm # <<>> =>
        \A k \in 1..Len(hits) :
            LET d == DocWithId(hits[k].id)
                collapsed == CollapseSpaces(OrEmpty(d.content))
                lowered == ToLowerCase(collapsed)
                i == IndexOf(lowered, QueryNorm)
                start == Max(0, i - 70)
                end == Min(Len(collapsed), i + Len(QueryNorm) + 90)
                snippet == hits[k].snippet[1]
            IN  d.content # None /\ Includes(lowered, QueryNorm) =>
                    /\ hits[k].snippet # None
                    /\ Includes(ToLowerCase(snippet), QueryNorm)
                    /\ (snippet[1] = Ellipsis) = (start > 0)
                    /\ (snippet[Len(snippet)] = Ellipsis) = (end < Len(collapsed))

\* the snippet without its ellipsis markers (no content holds an ellipsis)
SnippetBody(snippet) ==
    LET lo == IF snippet # <<>> /\ snippet[1] = Ellipsis THEN 2 ELSE 1
        hi == IF Len(snippet) >= lo /\ snippet[Len(snippet)] = Ellipsis
              THEN Len(snippet) - 1 ELSE Len(snippet)
    IN  SubSeq(snippet, lo, hi)

\* C11: when a hit has a snippet, the text between the ellipsis markers is
\* the characters max(0, i-70) .. min(N, i+L+90) of the white-space-collapsed
\* content, case and accents kept, where i is the first occurrence of the
\* normalized query (length L) in the lower-cased collapsed content (length
\* N); so it is at most L+160 characters long.
C11_SnippetWindow ==
    called =>
        \A k \in 1..Len(hits) :
            hits[k].snippet # None =>
                LET collapsed == CollapseSpaces(OrEmpty(DocWithId(hits[k].id).content))
                    N == Len(collapsed)
                    L == Len(QueryNorm)
                    i == CHOOSE j \in 0..Len(ToLowerCase(collapsed)) :
                            /\ SubSeq(ToLowerCase(collapsed), j + 1, j + L) = QueryNorm
                            /\ \A m \in 0..(j - 1) :
                                  SubSeq(ToLowerCase(collapsed), m + 1, m + L) # QueryNorm
                    from == IF i - 70 > 0 THEN i - 70 ELSE 0
                    to == IF i + L + 90 < N THEN i + L + 90 ELSE N
                    body == SnippetBody(hits[k].snippet[1])
                IN  /\ Includes(ToLowerCase(collapsed), QueryNorm)
                    /\ body = [m \in 1..(to - from) |-> collapsed[from + m]]
                    /\ Len(body) <= L + 160

C11_Witness ==
    /\ called
    /\ query = <<"r", "e">>
    /\ Len(hits) = 1
    /\ hits[1].id = "l2"
    /\ hits[1].snippet # None
    /\ Len(hits[1].snippet[1]) = 164
    /\ hits[1].snippet[1][1] = Ellipsis
    /\ hits[1].snippet[1][164] = Ellipsis
    /\ SubSeq(hits[1].snippet[1], 71, 73) = <<"x", "R", "e">>

\* the content of d with white-space runs collapsed and lower-cased, accents kept
LoweredContent(d) == ToLowerCase(CollapseSpaces(OrEmpty(d.content)))

\* C12: a hit whose white-space-collapsed, lower-cased, not accent-stripped
\* content does not hold the normalized query has no snippet, also when the
\* accent-insensitive containment check added the content weight 15.
C12_NoRawMatchNoSnippet ==
    /\ called =>
          \A k \in 1..Len(hits) :
              ~Includes(LoweredContent(DocWithId(hits[k].id)), QueryNorm)
                  => hits[k].snippet = None
    /\ \A k \in 1..Len(results) :
          ~Includes(LoweredContent(DocWithId(results[k].id)), normalize(mquery))
              => results[k].snippet = None

C12_Witness ==
    /\ called
    /\ query = <<"e">>
    /\ Len(docs) = 1
    /\ docs[1].content = Some(<<EAcuteUpper, " ", "r">>)
    /\ Includes(normalize(docs[1].content[1]), QueryNorm)
    /\ ~Includes(LoweredContent(docs[1]), QueryNorm)
    /\ Len(hits) = 1
    /\ hits[1].score = 10 + 15 + 2
    /\ hits[1].snippet = None

C14_InputUnchanged ==
    [][calls' # calls => docs' = docs]_vars

C14_Witness ==
    /\ calls = 1
    /\ Len(docs) = 2
    /\ docs[1] = Doc("b", <<"x">>, Some(<<"R", "e">>), "/b", Some(<<EAcuteUpper, " ", "r">>))
    /\ docs[2] = Doc("a", <<"R", EAcute>>, None, "/a", None)
    /\ Len(hits) = 2
    /\ hits[1].id = "a"
    /\ hits[2].id = "b"

\* lower-cased, accents stripped, white-space runs collapsed, trimmed
NormalForm(s) == Trim(CollapseSpaces(Fold(s)))

\* C15: the call returns what the call with the normal form of its query
\* (lower-cased, accents stripped, white-space runs collapsed, trimmed) in
\* place of the query returns; so any two queries with the same normal form
\* give the same hits, order, scores and snippets on the same collection and
\* limit.
C15_SameNormalFormSameHits ==
    called => hits = searchDocs(docs, NormalForm(query), limit)

C15_Witness ==
    /\ called
    /\ query = <<EAcuteUpper>>
    /\ NormalForm(<<" ", "e">>) = NormalForm(query)
    /\ hits = searchDocs(docs, <<" ", "e">>, limit)
    /\ hits = searchDocs(docs, <<"e">>, limit)
    /\ Len(hits) = 2
    /\ hits[1].score = 40 + 8
    /\ hits[2].snippet # None

\* document d and hit h agree on id, label, category and href
SameIdentity(d, h) ==
    /\ h.id = d.id
    /\ h.label = d.label
    /\ h.category = d.category
    /\ h.href = d.href

\* C16: every hit has the id, label, category and href of exactly one
\* document of the collection, and no document has two hits in a result.
C16_HitIdentity ==
    called =>
        /\ \A k \in 1..Len(hits) :
              Cardinality({i \in 1..Len(docs) : SameIdentity(docs[i], hits[k])}) = 1
        /\ \A i \in 1..Len(docs) :
              Cardinality({k \in 1..Len(hits) : hits[k].id = docs[i].id}) <= 1

C16_Witness ==
    /\ called
    /\ Len(docs) = 2
    /\ Len(hits) = 2
    /\ hits[1].category = None
    /\ hits[2].category = Some(<<"R", "e">>)
    /\ SameIdentity(docs[2], hits[1])
    /\ SameIdentity(docs[1], hits[2])

\* C17: the collection the pages build from sidebarConfig has pairwise
\* distinct ids and pairwise distinct hrefs, and the collection handed to the
\* modal is the same before and after every query change, open and close.
C17_UiCollectionStable ==
    /\ [](docs = SidebarDocs =>
             \A i, j \in 1..Len(docs) :
                 i # j => docs[i].id # docs[j].id /\ docs[i].href # docs[j].href)
    /\ [][mquery' # mquery \/ open' # open \/ results' # results => docs' = docs]_vars

C17_Witness ==
    /\ docs = SidebarDocs
    /\ Len(docs) = 13
    /\ Cardinality({docs[i].id : i \in 1..Len(docs)}) = 13
    /\ ~open
    /\ ~effectPending
    /\ mquery = <<"n", "y", "t", "e">>
    /\ Len(results) = 10

\* C18: while the modal is open it shows exactly one of the hit list (the
\* result is not empty), the no-results text (empty result, query not blank)
\* and the idle prompt (query empty or white space only); never the idle
\* prompt for a query that is not blank, never the hit list for a blank one.
C18_DisplayStates ==
    open =>
        /\ Display \in {"hits", "noResults", "idle"}
        /\ (Display = "hits") = (results # <<>>)
        /\ (Display = "noResults") = (results = <<>> /\ ~Blank(mquery))
        /\ (Display = "idle") = Blank(mquery)
        /\ (~Blank(mquery) => Display # "idle")
        /\ (Blank(mquery) => Display # "hits")

C18_Witness ==
    /\ open
    /\ ~effectPending
    /\ docs = SidebarDocs
    /\ mquery = <<CombAcute>>
    /\ ~Blank(mquery)
    /\ results = <<>>
    /\ Display = "noResults"

\* d with an absent category or content replaced by the empty string
WithEmptyStrings(d) ==
    [d EXCEPT !.category = Some(OrEmpty(d.category)), !.content = Some(OrEmpty(d.content))]

\* the score of the hit for d when d is searched alone (0 when it is no hit)
ScoreAlone(d) ==
    LET hs == searchDocs(<<d>>, query, Some(1))
    IN  IF hs = <<>> THEN 0 ELSE hs[1].score

\* what the label rules alone give d
LabelOnlyScore(d) ==
    40 * Bit(Includes(normalize(d.label), QueryNorm))
    + 8 * Cardinality({i \in 1..Len(Words(QueryNorm)) :
                          Includes(normalize(d.label), Words(QueryNorm)[i])})

\* C19: a document without category or content is scored like the same
\* document with the empty string in that field, the call returns for it, the
\* category and the content rule add nothing for an absent or empty field,
\* and a page given empty content has neither content score nor snippet.
C19_MissingFieldsAreAbsence ==
    called /\ QueryNorm # <<>> =>
        /\ \A i \in 1..Len(docs) :
              /\ ScoreAlone(docs[i]) = ScoreAlone(WithEmptyStrings(docs[i]))
              /\ (HasNoContent(docs[i]) /\ OrEmpty(docs[i].category) = <<>>
                     => ScoreAlone(docs[i]) = LabelOnlyScore(docs[i]))
        /\ \A k \in 1..Len(hits) :
              LET d == DocWithId(hits[k].id)
              IN  HasNoContent(d) =>
                      /\ hits[k].snippet = None
                      /\ hits[k].score = LabelOnlyScore(d)
                            + 10 * Bit(Includes(normalize(OrEmpty(d.category)), QueryNorm))

C19_Witness ==
    /\ called
    /\ query = <<"r">>
    /\ docs = <<Doc("a", <<"R", EAcute>>, None, "/a", None)>>
    /\ Len(hits) = 1
    /\ hits[1].score = 40 + 8
    /\ hits[1].category = None
    /\ hits[1].snippet = None
    /\ ScoreAlone(WithEmptyStrings(docs[1])) = 40 + 8

\* C20 as stated: with once = true isVisible is true from the first
\* intersecting observation on; with once = false isVisible is the
\* isIntersecting of the most recent observation.
C20_RevealFollowsObservations ==
    observations # <<>> =>
        IF once
        THEN (\E i \in 1..Len(observations) : observations[i]) => isVisible
        ELSE isVisible = observations[Len(observations)]

\* C21: usePrefersReducedMotion returns false until its mount effect has
\* run, and always where window or matchMedia is missing; once mounted, and
\* with no change event outstanding, it returns the current value of the
\* media query; after unmount no listener is registered.
C21_ReducedFollowsMedia ==
    /\ (motionPhase = "rendered" => ~reduced)
    /\ (~hasMatchMedia => ~reduced)
    /\ (motionPhase = "mounted" /\ hasMatchMedia /\ ~changePending => reduced = mediaMatches)
    /\ (motionPhase = "unmounted" => mediaListener = "none")

C21_Witness ==
    /\ motionPhase = "mounted"
    /\ hasMatchMedia
    /\ mediaListener = "legacy"
    /\ changes = 2
    /\ ~changePending
    /\ reduced
    /\ mediaMatches

\* C22 as stated: on both pages, after a keydown of K (k or K) with Ctrl or
\* Meta held the modal is open and after a keydown of Escape it is closed,
\* whatever the state before; a keydown that finds the modal already so
\* changes nothing but the record of the event.
C22_ShortcutOpensEscapeCloses ==
    /\ []((lastKey.ctrlKey \/ lastKey.metaKey) /\ lastKey.key \in {"k", "K"} => open)
    /\ [](lastKey.key = "Escape" => ~open)
    /\ [][lastKey' # lastKey /\ open' = open =>
             UNCHANGED <<searchVars, revealVars, motionVars, page, activeSection, parallaxVars>>]_vars

\* the zero-based position in the collection of the document of hit h
InputIndex(h) == FindIndex([i \in 1..Len(docs) |-> docs[i].id], h.id)

\* C23: the result is ordered by score descending, then by position in the
\* input collection ascending: hits with equal scores keep the input order.
C23_TiesKeepInputOrder ==
    called =>
        \A i, j \in 1..Len(hits) :
            i < j =>
                \/ hits[i].score > hits[j].score
                \/ /\ hits[i].score = hits[j].score
                   /\ InputIndex(hits[i]) < InputIndex(hits[j])

C23_Witness ==
    /\ called
    /\ Len(docs) = 2
    /\ Len(hits) = 2
    /\ hits[1].score = hits[2].score
    /\ hits[1].id = docs[1].id
    /\ hits[2].id = docs[2].id

HitScores == {hits[i].score : i \in 1..Len(hits)}

\* C24: when the normalized query is one token every score is one of 10,
\* 17, 27, 48, 58, 65, 75; when it has k tokens a hit whose label contains
\* the full query scores at least 40 + 8k and no hit scores more than
\* 65 + 10k.
C24_ScoreValues ==
    called /\ QueryNorm # <<>> =>
        LET k == Len(Words(QueryNorm))
        IN  /\ (k = 1 => HitScores \subseteq {10, 17, 27, 48, 58, 65, 75})
            /\ \A i \in 1..Len(hits) :
                  /\ hits[i].score <= 65 + 10 * k
                  /\ (LabelMatches(DocWithId(hits[i].id)) => hits[i].score >= 40 + 8 * k)

C24_Witness ==
    /\ called
    /\ docs = SidebarDocs
    /\ query = <<"e">>
    /\ Len(Words(QueryNorm)) = 1
    /\ {10, 27, 58, 75} \subseteq HitScores

\* C25: in every state the hit list of the modal is searchDocs(docs, query, 10)
\* for the query now in the input, empty when that query is blank; it never
\* has more than 10 hits and never holds the hits of an earlier query.
C25_ResultsOfCurrentQuery ==
    /\ results = (IF Blank(mquery) THEN <<>> ELSE searchDocs(docs, mquery, Some(10)))
    /\ Len(results) <= 10

C25_Witness ==
    /\ docs = SidebarDocs
    /\ open
    /\ ~effectPending
    /\ mquery = <<"n", "y", "t", "e">>
    /\ Len(results) = 10
    /\ Len(searchDocs(docs, mquery, None)) > 10

\* C26: every closed-to-open transition schedules the open effect, and when
\* that effect has run the query is initialQuery whatever was typed before;
\* the query changes otherwise only by typing while the modal is open, which
\* changes nothing else than the query (and the hits computed from it), and
\* closing leaves the query as it is.
C26_QueryResetOnOpen ==
    /\ [](effectPending => open)
    /\ [][~open /\ open' => effectPending' /\ mquery' = mquery]_vars
    /\ [][effectPending /\ ~effectPending' => open' /\ mquery' = InitialQuery]_vars
    /\ [][mquery' # mquery /\ ~effectPending =>
             /\ open /\ open'
             /\ UNCHANGED <<docs, query, limit, hits, called, calls, effectPending>>]_vars
    /\ [][open /\ ~open' => mquery' = mquery]_vars

\* the modal was reopened with the text of the earlier session still in the
\* query, and the open effect is about to run
C26_Witness ==
    /\ scenario = "modal"
    /\ open
    /\ effectPending
    /\ mquery = <<"n", "y", "t", "e">>
    /\ mquery # InitialQuery

\* useParallax writes no transform and holds nothing of the browser: it is
\* unmounted, or the effect of the render with enabled = false has run
ParallaxOff == pxPhase = "unmounted" \/ (pxPhase = "idle" /\ ~pxEnabled)

\* C27: the browser never holds more than one animation-frame request of the
\* hook, however many scroll and resize events arrive; when the hook is off
\* (disabled or unmounted) no request is held and neither listener is
\* registered, and no step that ends with the hook off writes a transform.
C27_OneFramePending ==
    /\ [](Cardinality(frames) <= 1)
    /\ [](ParallaxOff => frames = {} /\ ~scrollListener /\ ~resizeListener)
    /\ [][ParallaxOff' => transform' = transform /\ writes' = writes]_vars

\* two events arrived before the frame ran, and the hook is then switched off
\* with the request still pending
C27_Witness ==
    /\ ParallaxOff
    /\ raf # 0
    /\ frames = {}
    /\ uiEvents >= 2
    /\ writes = 1
    /\ transform # None

\* the id of the page the Previous (Next) button of page id leads to
PreviousOf(id) == getNavigationPages(id).previous
NextOf(id) == getNavigationPages(id).next

\* previous and next follow the flattened order of the sidebar items
NavigationInSidebarOrder ==
    \A i \in 1..Len(AllPages) :
        /\ PreviousOf(AllPages[i]) = (IF i = 1 THEN None ELSE Some(AllPages[i - 1]))
        /\ NextOf(AllPages[i]) = (IF i = Len(AllPages) THEN None ELSE Some(AllPages[i + 1]))
        /\ (i # Len(AllPages) => PreviousOf(NextOf(AllPages[i])[1]) = Some(AllPages[i]))
        /\ (i # 1 => NextOf(PreviousOf(AllPages[i])[1]) = Some(AllPages[i]))

\* C28: previous and next follow the flattened order of the sidebar items
\* (none before the first, none after the last, each the inverse of the
\* other), and the footer of the page shown offers a Previous or Next link
\* only when that page is an item of the sidebar.
C28_NavigationFollowsSidebar ==
    page = "docs" =>
        /\ NavigationInSidebarOrder
        /\ (PreviousOf(activeSection) # None \/ NextOf(activeSection) # None
                => FindIndex(AllPages, activeSection) # -1)

RECURSIVE JoinFrom(_, _)
\* the words from word i on, joined with single spaces
JoinFrom(words, i) ==
    IF i > Len(words) THEN <<>>
    ELSE IF i = Len(words) THEN words[i]
    ELSE words[i] \o <<" ">> \o JoinFrom(words, i + 1)

\* the tokens of q are not empty and hold no white space, they give q back
\* when joined with single spaces, and there is one at least when q is not
\* empty
TokensOf(q) ==
    LET tokens == Words(q)
    IN  /\ \A i \in 1..Len(tokens) :
              /\ tokens[i] # <<>>
              /\ \A j \in 1..Len(tokens[i]) : ~IsSpace(tokens[i][j])
        /\ JoinFrom(tokens, 1) = q
        /\ (q # <<>> => Len(tokens) >= 1)

\* C29: the tokens of the normalized query (of a direct call and of the
\* modal) are its non-empty space-delimited pieces: none is empty or holds
\* white space, joined with single spaces they are the normalized query, and
\* a non-empty normalized query has at least one token.
C29_TokensOfNormalizedQuery ==
    /\ TokensOf(QueryNorm)
    /\ TokensOf(normalize(mquery))

C29_Witness ==
    /\ called
    /\ query = <<"r", "p", "c", " ", " ", "s", "y", "s", "t", "e", "m">>
    /\ Words(QueryNorm) = << <<"r", "p", "c">>, <<"s", "y", "s", "t", "e", "m">> >>
    /\ hits # <<>>

=============================================================================
